---- MODULE Spec2Model ----
(***************************************************************************)
(* Model of the MegaETH testnet statistics reporter:                       *)
(*   - BlockscoutApiClient.retryWithBackoff and the error translation of   *)
(*     getLatestBlocks / getTransactions           (src/src/statistics.ts) *)
(*   - main(), the report run                       (src/unnamed/part_000) *)
(*   - the seven aggregation functions compute*    (src/src/statistics.ts) *)
(* Strings that the code parses are sequences of one-character strings.    *)
(***************************************************************************)
EXTENDS Integers, Sequences, FiniteSets, TLC

VARIABLES
    pc,            \* position of main(): idle, awaitBlocks, loop, awaitTxs, stats, done, exited
    blocks,        \* main: let blocks
    idx,           \* main: 1-based position of the for..of loop in the slice
    transactions,  \* main: let transactions
    exitCode,      \* process exit status, NoExit while running
    stats,         \* the statistics computed by main (NoStats until computed)
    console,       \* tags of the console lines main has written
    op,            \* the operation (fn) wrapped by the current retryWithBackoff call
    maxRetries,    \* retryWithBackoff: parameter maxRetries
    initialDelay,  \* retryWithBackoff: parameter initialDelay
    attempt,       \* retryWithBackoff: loop variable attempt
    lastError,     \* retryWithBackoff: let lastError
    rpc,           \* position of retryWithBackoff: idle, awaitFn, wait, returned, thrown
    result,        \* settled value of the retryWithBackoff promise
    calls,         \* number of invocations of fn by the current retryWithBackoff call
    waits,         \* delays passed to setTimeout by the current retryWithBackoff call
    outcomes,      \* settled outcome of each invocation of fn, in order
    inFlight,      \* number of HTTP requests issued and not yet settled
    requested,     \* the distinct HTTP requests issued so far
    fetchLog,      \* main: one entry per retryWithBackoff call that has settled
    aggIn,         \* aggregation harness: the transaction array passed in
    gasOut,        \* aggregation harness: outcome of computeAverageGasPrice(aggIn)
    valueOut,      \* aggregation harness: outcome of computeTransactionValueStats(aggIn)
    blocksIn,      \* aggregation harness: the block array passed in
    limitIn,       \* aggregation harness: the limit argument of computeTopAddresses
    volumeOut,     \* aggregation harness: outcome of computeTransactionVolume(blocksIn)
    activeOut,     \* aggregation harness: outcome of computeActiveAddresses(aggIn)
    deployOut,     \* aggregation harness: outcome of computeContractDeployments(aggIn)
    blockTimeOut,  \* aggregation harness: outcome of computeBlockTimeStats(blocksIn)
    topOut         \* aggregation harness: outcome of computeTopAddresses(aggIn, limitIn)

mainVars == <<pc, blocks, idx, transactions, exitCode, stats, console, fetchLog>>
retryVars == <<op, maxRetries, initialDelay, attempt, lastError, rpc, result,
               calls, waits, outcomes, inFlight, requested>>
aggVars == <<aggIn, gasOut, valueOut, blocksIn, limitIn, volumeOut, activeOut,
             deployOut, blockTimeOut, topOut>>
vars == <<pc, blocks, idx, transactions, exitCode, stats, console, fetchLog,
          op, maxRetries, initialDelay, attempt, lastError, rpc, result,
          calls, waits, outcomes, inFlight, requested, aggIn, gasOut, valueOut,
          blocksIn, limitIn, volumeOut, activeOut, deployOut, blockTimeOut, topOut>>

----------------------------------------------------------------------------
(* Bounds of the model *)

\* retryWithBackoff is explored for maxRetries in -1..MaxAttemptsBound
MaxAttemptsBound == 4
\* longest transaction array handed to an aggregation function on its own
MaxTxs == 2
\* longest transaction array handed to an address function on its own
MaxAddressTxs == 3
\* longest block array handed to a block function on its own
MaxBlocksIn == 3

(* Program constants *)

DefaultMaxRetries == 3
DefaultInitialDelay == 1000
TxFetchBlockCap == 20
TxPageSize == 100

\* the initial delays the retry harness is called with: the default and the
\* one the tests use
InitialDelays == {DefaultInitialDelay, 10}

Min(a, b) == IF a < b THEN a ELSE b

----------------------------------------------------------------------------
(* JavaScript values *)

\* a string field of a record: present with its characters, or undefined/null
Str(cs) == [def |-> TRUE, s |-> cs]
Undefined == [def |-> FALSE, s |-> <<>>]

NoError == "undefined"
NoExit == -1

RateLimitMessage == "Rate limit exceeded. Please try again later."
ApiErrorMessage == "API error: {\"message\":\"upstream\"}"
NetworkErrorMessage == "Network error: socket hang up"
InvalidFormatMessage == "API error: Invalid response format"
UnknownErrorMessage == "Unknown error occurred"

----------------------------------------------------------------------------
(* Characters and numbers *)

DecDigits == {"0", "1", "2", "3", "4", "5", "6", "7", "8", "9"}
HexDigits == DecDigits \cup {"a", "b", "c", "d", "e", "f", "A", "B", "C", "D", "E", "F"}
WhiteSpace == {" "}

DigitVal(c) ==
    CASE c = "0" -> 0 [] c = "1" -> 1 [] c = "2" -> 2 [] c = "3" -> 3
      [] c = "4" -> 4 [] c = "5" -> 5 [] c = "6" -> 6 [] c = "7" -> 7
      [] c = "8" -> 8 [] c = "9" -> 9
      [] c \in {"a", "A"} -> 10 [] c \in {"b", "B"} -> 11
      [] c \in {"c", "C"} -> 12 [] c \in {"d", "D"} -> 13
      [] c \in {"e", "E"} -> 14 [] c \in {"f", "F"} -> 15

DigitChar(d) == <<"0", "1", "2", "3", "4", "5", "6", "7", "8", "9">>[d + 1]

\* value of the first n digits of cs in the given radix
RECURSIVE DigitsValueUpTo(_, _, _)
DigitsValueUpTo(cs, radix, n) ==
    IF n = 0 THEN 0
    ELSE DigitsValueUpTo(cs, radix, n - 1) * radix + DigitVal(cs[n])

\* value of the digit sequence cs in the given radix, most significant first
DigitsValue(cs, radix) == DigitsValueUpTo(cs, radix, Len(cs))

\* Number.prototype.toString of a non-negative integer
RECURSIVE NumberToString(_)
NumberToString(n) ==
    IF n < 10 THEN <<DigitChar(n)>>
    ELSE NumberToString(n \div 10) \o <<DigitChar(n % 10)>>

RECURSIVE Pow2(_)
Pow2(n) == IF n = 0 THEN 1 ELSE 2 * Pow2(n - 1)

\* JavaScript  x || d  on an optional string: undefined, null and '' are falsy
OrElse(x, d) == IF x.def /\ x.s # <<>> THEN x ELSE d

----------------------------------------------------------------------------
(* BlockscoutApiClient: the HTTP exchange and its translation *)

\* what one HTTP GET can come back with
HttpOutcomes == {"items", "noItems", "status429", "errorBody", "noResponse"}

\* the error a get* method throws for an HTTP outcome, NoError if it returns
ApiError(http) ==
    CASE http = "items" -> NoError
      [] http = "noItems" -> InvalidFormatMessage
      [] http = "status429" -> RateLimitMessage
      [] http = "errorBody" -> ApiErrorMessage
      [] http = "noResponse" -> NetworkErrorMessage

\* isoToUnixTimestamp; the instant of the ISO string is given in milliseconds
isoToUnixTimestamp(ms) == Str(NumberToString(ms \div 1000))

ApiBlock(h, ms, n) == [height |-> h, timestamp |-> ms, transactions_count |-> n]

mapApiBlock(apiBlock) ==
    [number |-> apiBlock.height,
     timestamp |-> isoToUnixTimestamp(apiBlock.timestamp),
     transaction_count |-> apiBlock.transactions_count]

ApiTx(f, t, v, g) == [from |-> f, to |-> t, value |-> v, gas_price |-> g]

mapApiTx(apiTx) ==
    [from |-> OrElse(apiTx.from, Str(<<>>)),
     to |-> OrElse(apiTx.to, Undefined),
     value |-> OrElse(apiTx.value, Str(<<"0">>)),
     gas_price |-> OrElse(apiTx.gas_price, Str(<<"0">>))]

\* response.data.items.map(...)
getLatestBlocksResult(items) == [i \in 1..Len(items) |-> mapApiBlock(items[i])]
getTransactionsResult(items) == [i \in 1..Len(items) |-> mapApiTx(items[i])]

----------------------------------------------------------------------------
(* BigInt(string): StringToBigInt of ECMAScript *)

Parsed(n) == [ok |-> TRUE, val |-> n]
SyntaxError == [ok |-> FALSE, val |-> 0]

\* cs without its leading and trailing white space
Trim(cs) ==
    LET inked == {i \in 1..Len(cs) : cs[i] \notin WhiteSpace} IN
    IF inked = {} THEN <<>>
    ELSE SubSeq(cs, CHOOSE i \in inked : \A j \in inked : i <= j,
                    CHOOSE i \in inked : \A j \in inked : i >= j)

AllIn(cs, S) == cs # <<>> /\ \A i \in 1..Len(cs) : cs[i] \in S

\* white space is trimmed; the empty string is 0n; 0x / 0X introduces a hex
\* literal; a sign is allowed before decimal digits only; anything else
\* throws a SyntaxError
StringToBigInt(cs) ==
    LET t == Trim(cs) IN
    IF t = <<>> THEN Parsed(0)
    ELSE IF Len(t) >= 2 /\ t[1] = "0" /\ t[2] \in {"x", "X"}
    THEN IF AllIn(SubSeq(t, 3, Len(t)), HexDigits)
         THEN Parsed(DigitsValue(SubSeq(t, 3, Len(t)), 16))
         ELSE SyntaxError
    ELSE IF t[1] \in {"-", "+"}
    THEN IF AllIn(Tail(t), DecDigits)
         THEN Parsed((IF t[1] = "-" THEN -1 ELSE 1) * DigitsValue(Tail(t), 10))
         ELSE SyntaxError
    ELSE IF AllIn(t, DecDigits) THEN Parsed(DigitsValue(t, 10))
    ELSE SyntaxError

----------------------------------------------------------------------------
(* statistics.ts: gas price and value statistics *)

\* a display amount: num base units divided by 10^exp
Display(n, e) == [num |-> n, exp |-> e]
Zero == Display(0, 0)

GweiExponent == 9
EthExponent == 18

weiToGwei(wei) == Display(wei, GweiExponent)
weiToEth(wei) == Display(wei, EthExponent)

\* xs.reduce((sum, x) => sum + x, 0n) over the first n elements
RECURSIVE SumUpTo(_, _)
SumUpTo(xs, n) == IF n = 0 THEN 0 ELSE SumUpTo(xs, n - 1) + xs[n]

SumSeq(xs) == SumUpTo(xs, Len(xs))

\* xs.reduce((min, x) => (x < min ? x : min), xs[0]) over the first n elements
RECURSIVE MinUpTo(_, _)
MinUpTo(xs, n) ==
    IF n = 0 THEN xs[1]
    ELSE CHOOSE r \in {IF xs[n] < min THEN xs[n] ELSE min :
                         min \in {MinUpTo(xs, n - 1)}} : TRUE

MinSeq(xs) == MinUpTo(xs, Len(xs))

\* xs.reduce((max, x) => (x > max ? x : max), xs[0]) over the first n elements
RECURSIVE MaxUpTo(_, _)
MaxUpTo(xs, n) ==
    IF n = 0 THEN xs[1]
    ELSE CHOOSE r \in {IF xs[n] > max THEN xs[n] ELSE max :
                         max \in {MaxUpTo(xs, n - 1)}} : TRUE

MaxSeq(xs) == MaxUpTo(xs, Len(xs))

IsPositive(n) == n > 0

GasPriceStats(avg, mn, mx, total) ==
    [computed |-> TRUE, raised |-> FALSE,
     averageGasPriceGwei |-> avg, minGasPriceGwei |-> mn,
     maxGasPriceGwei |-> mx, totalTransactions |-> total]

ValueStats(tot, avg, mn, mx, total) ==
    [computed |-> TRUE, raised |-> FALSE,
     totalValueEth |-> tot, averageValueEth |-> avg, minValueEth |-> mn,
     maxValueEth |-> mx, totalTransactions |-> total]

\* the call ended by throwing
Raised == [computed |-> TRUE, raised |-> TRUE]

\* BigInt(tx.gas_price || '0'), not guarded
GasPriceOf(tx) == StringToBigInt(OrElse(tx.gas_price, Str(<<"0">>)).s)

\* the part of computeAverageGasPrice after the filter
GasPriceStatsOver(gasPricesWei, total) ==
    IF Len(gasPricesWei) = 0
    THEN GasPriceStats(Zero, Zero, Zero, total)
    ELSE GasPriceStats(weiToGwei(SumSeq(gasPricesWei) \div Len(gasPricesWei)),
                       weiToGwei(MinSeq(gasPricesWei)),
                       weiToGwei(MaxSeq(gasPricesWei)),
                       total)

computeAverageGasPrice(txs) ==
    IF Len(txs) = 0 THEN GasPriceStats(Zero, Zero, Zero, 0)
    ELSE IF \E i \in 1..Len(txs) : ~GasPriceOf(txs[i]).ok THEN Raised
    ELSE CHOOSE r \in
            {GasPriceStatsOver(gasPricesWei, Len(txs)) :
               gasPricesWei \in
                 {SelectSeq([i \in 1..Len(txs) |-> GasPriceOf(txs[i]).val], IsPositive)}} :
            TRUE

\* try { return BigInt(tx.value || '0') } catch { return 0n }
ValueOf(tx) ==
    LET parsed == StringToBigInt(OrElse(tx.value, Str(<<"0">>)).s)
    IN IF parsed.ok THEN parsed.val ELSE 0

\* the part of computeTransactionValueStats after the filter
ValueStatsOver(valuesWei, total) ==
    IF Len(valuesWei) = 0
    THEN ValueStats(Zero, Zero, Zero, Zero, total)
    ELSE ValueStats(weiToEth(SumSeq(valuesWei)),
                    weiToEth(SumSeq(valuesWei) \div Len(valuesWei)),
                    weiToEth(MinSeq(valuesWei)),
                    weiToEth(MaxSeq(valuesWei)),
                    total)

computeTransactionValueStats(txs) ==
    IF Len(txs) = 0 THEN ValueStats(Zero, Zero, Zero, Zero, 0)
    ELSE CHOOSE r \in
            {ValueStatsOver(valuesWei, Len(txs)) :
               valuesWei \in
                 {SelectSeq([i \in 1..Len(txs) |-> ValueOf(txs[i])], IsPositive)}} :
            TRUE

----------------------------------------------------------------------------
(* statistics.ts: JavaScript numbers, strings and arrays used by the other
   aggregation functions *)

RECURSIVE GCD(_, _)
GCD(a, b) == IF b = 0 THEN a ELSE GCD(b, a % b)

Abs(n) == IF n < 0 THEN 0 - n ELSE n

\* a number that need not be an integer, as a fraction in lowest terms
Number(n) == [num |-> n, den |-> 1]
NaN == [num |-> 0, den |-> 0]

\* the JavaScript division n / d of two integers, d >= 0; 0 / 0 is NaN and
\* n / 0 an infinity
Divide(n, d) ==
    IF d = 0 THEN (IF n = 0 THEN NaN ELSE [num |-> IF n > 0 THEN 1 ELSE -1, den |-> 0])
    ELSE [num |-> n \div GCD(Abs(n), d), den |-> d \div GCD(Abs(n), d)]

\* the truthiness test  if (s)  on a string field: null, undefined and ''
\* are falsy
Truthy(x) == x.def /\ x.s # <<>>

LowerChar(c) ==
    CASE c = "A" -> "a" [] c = "B" -> "b" [] c = "C" -> "c" [] c = "D" -> "d"
      [] c = "E" -> "e" [] c = "F" -> "f" [] c = "X" -> "x"
      [] OTHER -> c

\* the address is used as it is written
toLowerCase_AsWritten(cs) == cs

\* String.prototype.toLowerCase
toLowerCase(cs) == [i \in 1..Len(cs) |-> LowerChar(cs[i])]

\* the index of the first character of cs that is no white space
SkipWhiteSpace(cs) ==
    CHOOSE i \in 1..(Len(cs) + 1) :
        /\ i = Len(cs) + 1 \/ cs[i] \notin WhiteSpace
        /\ \A j \in 1..(i - 1) : cs[j] \in WhiteSpace

\* the index of the last character of the run of decimal digits from first
DigitsEnd(cs, first) ==
    CHOOSE e \in (first - 1)..Len(cs) :
        /\ \A j \in first..e : cs[j] \in DecDigits
        /\ e = Len(cs) \/ cs[e + 1] \notin DecDigits

\* parseInt from the first character that is no white space: a sign is
\* allowed, then the longest run of decimal digits is read; without a digit
\* the result is NaN
ParseIntFrom(cs, start) ==
    LET signed == start <= Len(cs) /\ cs[start] \in {"-", "+"}
        first == IF signed THEN start + 1 ELSE start
    IN CHOOSE r \in
         {IF last < first THEN [nan |-> TRUE, val |-> 0]
          ELSE [nan |-> FALSE,
                val |-> (IF signed /\ cs[start] = "-" THEN -1 ELSE 1)
                           * DigitsValue(SubSeq(cs, first, last), 10)] :
            last \in {DigitsEnd(cs, first)}} : TRUE

\* parseInt(string): leading white space is skipped
parseInt(cs) ==
    CHOOSE r \in {ParseIntFrom(cs, start) : start \in {SkipWhiteSpace(cs)}} : TRUE

\* one element too many is kept
Slice_OneMore(xs, end) == SubSeq(xs, 1, Min(end + 1, Len(xs)))

\* Array.prototype.slice(0, end) for an integer end: a negative end counts
\* from the end of the array
Slice(xs, end) ==
    SubSeq(xs, 1, IF end < 0 THEN (IF Len(xs) + end < 0 THEN 0 ELSE Len(xs) + end)
                  ELSE Min(end, Len(xs)))

----------------------------------------------------------------------------
(* statistics.ts: volume, addresses, deployments, block times, top addresses *)

Block(n, ts, c) == [number |-> n, timestamp |-> ts, transaction_count |-> c]

VolumeStats(total, n, avg) ==
    [computed |-> TRUE, raised |-> FALSE,
     totalTransactions |-> total, blocksAnalyzed |-> n,
     averageTransactionsPerBlock |-> avg]

\* reduce without its initial value: the first block is the accumulator and
\* its count is not added
RECURSIVE CountSumUpTo_NoInitialValue(_, _)
CountSumUpTo_NoInitialValue(bs, n) ==
    IF n <= 1 THEN 0 ELSE CountSumUpTo_NoInitialValue(bs, n - 1) + bs[n].transaction_count

\* blocks.reduce((sum, block) => sum + block.transaction_count, 0) over the
\* first n blocks
RECURSIVE CountSumUpTo(_, _)
CountSumUpTo(bs, n) ==
    IF n = 0 THEN 0 ELSE CountSumUpTo(bs, n - 1) + bs[n].transaction_count

\* the division is made without the test for an empty array
AverageTransactionsPerBlock_Unguarded(total, n) == Divide(total, n)

\* blocksAnalyzed > 0 ? totalTransactions / blocksAnalyzed : 0
AverageTransactionsPerBlock(total, n) == IF n > 0 THEN Divide(total, n) ELSE Number(0)

computeTransactionVolume(bs) ==
    VolumeStats(CountSumUpTo(bs, Len(bs)), Len(bs),
                AverageTransactionsPerBlock(CountSumUpTo(bs, Len(bs)), Len(bs)))

ActiveAddressesStats(all, s, r) ==
    [computed |-> TRUE, raised |-> FALSE,
     uniqueAddresses |-> all, uniqueSenders |-> s, uniqueReceivers |-> r]

\* the three Sets after the forEach callback has run on the first n
\* transactions
RECURSIVE ActiveSetsUpTo(_, _)
ActiveSetsUpTo(txs, n) ==
    IF n = 0 THEN [senders |-> {}, receivers |-> {}, allAddresses |-> {}]
    ELSE LET f == IF Truthy(txs[n].from) THEN {toLowerCase(txs[n].from.s)} ELSE {}
             t == IF Truthy(txs[n].to) THEN {toLowerCase(txs[n].to.s)} ELSE {}
         IN CHOOSE r \in
              {[senders |-> before.senders \cup f,
                receivers |-> before.receivers \cup t,
                allAddresses |-> before.allAddresses \cup f \cup t] :
                 before \in {ActiveSetsUpTo(txs, n - 1)}} : TRUE

computeActiveAddresses(txs) ==
    LET sets == ActiveSetsUpTo(txs, Len(txs))
    IN ActiveAddressesStats(Cardinality(sets.allAddresses),
                            Cardinality(sets.senders),
                            Cardinality(sets.receivers))

ContractDeploymentStats(total, pct) ==
    [computed |-> TRUE, raised |-> FALSE,
     totalDeployments |-> total, deploymentPercentage |-> pct]

\* only a null to is taken for a deployment
IsDeployment_NullOnly(tx) == ~tx.to.def

\* tx.to === null || tx.to === ''
IsDeployment(tx) == ~tx.to.def \/ tx.to.s = <<>>

\* transactions.length > 0 ? (totalDeployments / transactions.length) * 100 : 0
DeploymentPercentage(total, n) == IF n > 0 THEN Divide(total * 100, n) ELSE Number(0)

computeContractDeployments(txs) ==
    LET deployments == SelectSeq(txs, IsDeployment)
    IN ContractDeploymentStats(Len(deployments),
                               DeploymentPercentage(Len(deployments), Len(txs)))

BlockTimeStats(avg, mn, mx, total) ==
    [computed |-> TRUE, raised |-> FALSE,
     averageBlockTimeSeconds |-> avg, minBlockTimeSeconds |-> mn,
     maxBlockTimeSeconds |-> mx, totalBlocks |-> total]

\* totalBlocks: 0 as in the early return of the other functions
BlockTimeDefaults_NoTotal(n) == BlockTimeStats(Number(0), Number(0), Number(0), 0)

\* the result returned when there is nothing to difference
BlockTimeDefaults(n) == BlockTimeStats(Number(0), Number(0), Number(0), n)

\* the comparator (a, b) => a.number - b.number
compareNumbers(a, b) == a.number - b.number

\* b put into the sorted array: after every element that does not compare
\* greater than it (Array.prototype.sort is stable)
InsertBlock(sorted, b) ==
    LET k == Cardinality({i \in 1..Len(sorted) : compareNumbers(sorted[i], b) <= 0})
    IN SubSeq(sorted, 1, k) \o <<b>> \o SubSeq(sorted, k + 1, Len(sorted))

RECURSIVE SortedBlocksUpTo(_, _)
SortedBlocksUpTo(bs, n) ==
    IF n = 0 THEN <<>>
    ELSE CHOOSE r \in {InsertBlock(sorted, bs[n]) :
                         sorted \in {SortedBlocksUpTo(bs, n - 1)}} : TRUE

\* the blocks are differenced in the order they came in
sortedBlocks_Unsorted(bs) == bs

\* [...blocks].sort((a, b) => a.number - b.number)
sortedBlocks(bs) == SortedBlocksUpTo(bs, Len(bs))

\* the loop that fills blockTimes from the sorted blocks
blockTimes(sorted) ==
    [i \in 1..(Len(sorted) - 1) |->
        parseInt(sorted[i + 1].timestamp.s).val - parseInt(sorted[i].timestamp.s).val]

\* the part of computeBlockTimeStats after the loop; a timestamp that
\* parseInt turns into NaN makes the sum, Math.min and Math.max NaN
BlockTimeStatsOver(sorted, times, total) ==
    IF Len(times) = 0 THEN BlockTimeDefaults(total)
    ELSE IF \E i \in 1..Len(sorted) : parseInt(sorted[i].timestamp.s).nan
    THEN BlockTimeStats(NaN, NaN, NaN, total)
    ELSE BlockTimeStats(Divide(SumSeq(times), Len(times)),
                        Number(MinSeq(times)), Number(MaxSeq(times)), total)

computeBlockTimeStats(bs) ==
    IF Len(bs) < 2 THEN BlockTimeDefaults(Len(bs))
    ELSE CHOOSE r \in
            {CHOOSE over \in {BlockTimeStatsOver(sorted, times, Len(bs)) :
                                times \in {blockTimes(sorted)}} : TRUE :
               sorted \in {sortedBlocks(bs)}} : TRUE

TopAddress(a, c) == [address |-> a, transactionCount |-> c]

TopAddresses(list) == [computed |-> TRUE, raised |-> FALSE, list |-> list]

DefaultLimit == 5

\* addressCounts.set(addr, (addressCounts.get(addr) || 0) + 1) on the entries
\* of the Map in insertion order: a key already present keeps its place
CountAddress(entries, addr) ==
    IF \E i \in 1..Len(entries) : entries[i].address = addr
    THEN [i \in 1..Len(entries) |->
            IF entries[i].address = addr
            THEN TopAddress(addr, entries[i].transactionCount + 1)
            ELSE entries[i]]
    ELSE Append(entries, TopAddress(addr, 1))

\* a transaction sent to its own sender is counted once
CountTransaction_OncePerAddress(entries, tx) ==
    CHOOSE r \in
      {IF Truthy(tx.to) /\ ~(Truthy(tx.from) /\ toLowerCase(tx.from.s) = toLowerCase(tx.to.s))
       THEN CountAddress(afterFrom, toLowerCase(tx.to.s)) ELSE afterFrom :
         afterFrom \in {IF Truthy(tx.from)
                        THEN CountAddress(entries, toLowerCase(tx.from.s))
                        ELSE entries}} : TRUE

\* the forEach callback of computeTopAddresses on one transaction
CountTransaction(entries, tx) ==
    CHOOSE r \in
      {IF Truthy(tx.to) THEN CountAddress(afterFrom, toLowerCase(tx.to.s)) ELSE afterFrom :
         afterFrom \in {IF Truthy(tx.from)
                        THEN CountAddress(entries, toLowerCase(tx.from.s))
                        ELSE entries}} : TRUE

\* Array.from(addressCounts.entries()) after the first n transactions
RECURSIVE AddressCountsUpTo(_, _)
AddressCountsUpTo(txs, n) ==
    IF n = 0 THEN <<>>
    ELSE CHOOSE r \in {CountTransaction(entries, txs[n]) :
                         entries \in {AddressCountsUpTo(txs, n - 1)}} : TRUE

\* the comparator (a, b) => b[1] - a[1]
compareCounts(a, b) == b.transactionCount - a.transactionCount

\* an unstable sort: e goes before the entries it compares equal to
InsertEntry_TiesReversed(sorted, e) ==
    LET k == Cardinality({i \in 1..Len(sorted) : compareCounts(sorted[i], e) < 0})
    IN SubSeq(sorted, 1, k) \o <<e>> \o SubSeq(sorted, k + 1, Len(sorted))

\* e put into the sorted entries: after every entry that does not compare
\* greater than it (Array.prototype.sort is stable)
InsertEntry(sorted, e) ==
    LET k == Cardinality({i \in 1..Len(sorted) : compareCounts(sorted[i], e) <= 0})
    IN SubSeq(sorted, 1, k) \o <<e>> \o SubSeq(sorted, k + 1, Len(sorted))

RECURSIVE SortedEntriesUpTo(_, _)
SortedEntriesUpTo(es, n) ==
    IF n = 0 THEN <<>>
    ELSE CHOOSE r \in {InsertEntry(sorted, es[n]) :
                         sorted \in {SortedEntriesUpTo(es, n - 1)}} : TRUE

sortedAddresses(es) == SortedEntriesUpTo(es, Len(es))

computeTopAddresses(txs, limit) ==
    CHOOSE r \in
      {TopAddresses(Slice(sorted, limit)) :
         sorted \in {sortedAddresses(entries) :
                       entries \in {AddressCountsUpTo(txs, Len(txs))}}} : TRUE

----------------------------------------------------------------------------
(* What the upstream can answer *)

\* longest block list the upstream answers with
MaxBlocks == 3

AddrA == Str(<<"0", "x", "A">>)
AddrB == Str(<<"0", "x", "b">>)

\* n consecutive blocks from height first, ten seconds apart
BlockListOfLen(n, first) ==
    [i \in 1..n |-> ApiBlock(first + i - 1, (1000 + 10 * i) * 1000, i - 1)]

\* the height at which the block lists longer than main's cap start
LongListFirst == 1000

\* block lists of 20 and of 22 blocks
LongBlockLists == {BlockListOfLen(TxFetchBlockCap + k, LongListFirst) : k \in {0, 2}}

UpstreamBlockLists ==
    {BlockListOfLen(n, f) : n \in 0..MaxBlocks, f \in {0, 100}} \cup LongBlockLists

\* the items of a /v2/transactions answer: none, a well-formed transfer, a
\* transaction whose gas_price is not a number, and a deployment without
\* gas_price next to a transfer with a non-numeric value
UpstreamTxBatches ==
    { <<>>,
      <<ApiTx(AddrA, AddrB, Str(<<"7">>), Str(<<"1", "0">>))>>,
      <<ApiTx(AddrB, AddrA, Str(<<"1">>), Str(<<"1", "a">>))>>,
      <<ApiTx(AddrA, Undefined, Str(<<"0">>), Undefined),
        ApiTx(AddrA, AddrB, Str(<<"a">>), Str(<<"2">>))>> }

BlocksOp == [kind |-> "blocks", block_number |-> 0]
TxsOp(n) == [kind |-> "txs", block_number |-> n]
NoOp == [kind |-> "none", block_number |-> 0]

\* the blocks of the long lists hold one transfer each
UpstreamItems(o) ==
    IF o.kind = "blocks" THEN UpstreamBlockLists
    ELSE IF o.block_number >= LongListFirst
    THEN {<<ApiTx(AddrA, AddrB, Str(<<"7">>), Str(<<"1", "0">>))>>}
    ELSE UpstreamTxBatches

\* the ways a request can fail; of the blocks of the long lists only the first
\* and the 20th are explored with failing requests
UpstreamFailures(o) ==
    IF /\ o.kind = "txs"
       /\ o.block_number >= LongListFirst
       /\ o.block_number \notin {LongListFirst, LongListFirst + TxFetchBlockCap - 1}
    THEN {}
    ELSE HttpOutcomes \ {"items"}

\* the value fn resolves with when the answer carries items
FnValue(o, items) ==
    IF o.kind = "blocks" THEN getLatestBlocksResult(items) ELSE getTransactionsResult(items)

\* BLOCK_RANGE is left unset
BlockRange == 100
NoFilter == -1

\* the GET that getLatestBlocks(blockRange) sends
getLatestBlocksRequest ==
    [path |-> "/v2/blocks", page |-> 1, offset |-> BlockRange, block_number |-> NoFilter]

\* the GET that getTransactions({block_number: n, offset: 100}) sends: the
\* filter is spread in only when params.block_number is truthy
getTransactionsRequest(n) ==
    [path |-> "/v2/transactions", page |-> 1, offset |-> TxPageSize,
     block_number |-> IF n # 0 THEN n ELSE NoFilter]

RequestOf(o) ==
    IF o.kind = "blocks" THEN getLatestBlocksRequest
    ELSE getTransactionsRequest(o.block_number)

----------------------------------------------------------------------------
(* BlockscoutApiClient.retryWithBackoff *)

Resolved(v) == [ok |-> TRUE, value |-> v, error |-> NoError]
Rejected(e) == [ok |-> FALSE, value |-> <<>>, error |-> e]
Pending == [ok |-> FALSE, value |-> <<>>, error |-> NoError]

\* the exponent taken one too high
BackoffDelay_ExponentOff(d, a) == d * Pow2(a + 1)

\* initialDelay * Math.pow(2, attempt)
BackoffDelay(d, a) == d * Pow2(a)

\* the condition under which the catch block waits
WaitsBeforeNext(a, mr) == a < mr - 1

\* the first error is kept instead of the latest
CaughtError_KeepFirst(prev, e) == IF prev = NoError THEN e ELSE prev

\* lastError = error instanceof Error ? error : new Error(String(error))
CaughtError(prev, e) == e

\* the loop test does not hold the attempts to maxRetries
LoopTest_Unbounded(a, mr) == a < mr + 1

\* the body runs once before the test is made
LoopTest_DoWhile(a, mr) == a = 0 \/ a < mr

\* attempt < maxRetries
LoopTest(a, mr) == a < mr

\* the loop test with attempt = a, fn wrapped being o, n requests in flight
\* and err the last error: either fn is invoked, which sends its request, or
\* the loop is left and lastError || new Error('Unknown error occurred') is
\* thrown
LoopTop(o, a, mr, n, err) ==
    /\ attempt' = a
    /\ IF LoopTest(a, mr)
       THEN /\ rpc' = "awaitFn"
            /\ calls' = calls + 1
            /\ inFlight' = n + 1
            /\ requested' = requested \cup {RequestOf(o)}
            /\ result' = Pending
       ELSE /\ rpc' = "thrown"
            /\ calls' = calls
            /\ inFlight' = n
            /\ requested' = requested
            /\ result' = Rejected(IF err # NoError THEN err ELSE UnknownErrorMessage)

\* the call retryWithBackoff(fn, mr, d) up to its first await
retryWithBackoff(fn, mr, d) ==
    /\ op' = fn
    /\ maxRetries' = mr
    /\ initialDelay' = d
    /\ lastError' = NoError
    /\ waits' = <<>>
    /\ outcomes' = <<>>
    /\ attempt' = 0
    /\ IF LoopTest(0, mr)
       THEN /\ rpc' = "awaitFn"
            /\ calls' = 1
            /\ inFlight' = inFlight + 1
            /\ requested' = requested \cup {RequestOf(fn)}
            /\ result' = Pending
       ELSE /\ rpc' = "thrown"
            /\ calls' = 0
            /\ inFlight' = inFlight
            /\ requested' = requested
            /\ result' = Rejected(UnknownErrorMessage)

\* the value of fn is awaited but not returned: the loop goes on
FnResolve_NoReturn(items) ==
    /\ rpc = "awaitFn"
    /\ outcomes' = Append(outcomes, Resolved(FnValue(op, items)))
    /\ LoopTop(op, attempt + 1, maxRetries, inFlight - 1, lastError)
    /\ UNCHANGED <<op, maxRetries, initialDelay, lastError, waits>>
    /\ UNCHANGED mainVars
    /\ UNCHANGED aggVars

\* the request is answered with items: fn resolves and the value is returned
FnResolve(items) ==
    /\ rpc = "awaitFn"
    /\ inFlight' = inFlight - 1
    /\ outcomes' = Append(outcomes, Resolved(FnValue(op, items)))
    /\ rpc' = "returned"
    /\ result' = Resolved(FnValue(op, items))
    /\ UNCHANGED <<op, maxRetries, initialDelay, attempt, lastError, calls,
                   waits, requested>>
    /\ UNCHANGED mainVars
    /\ UNCHANGED aggVars

\* a rate-limit error is rethrown at once instead of being retried
FnReject_RateLimitFatal(http) ==
    /\ rpc = "awaitFn"
    /\ outcomes' = Append(outcomes, Rejected(ApiError(http)))
    /\ lastError' = CaughtError(lastError, ApiError(http))
    /\ IF ApiError(http) = RateLimitMessage
       THEN /\ rpc' = "thrown"
            /\ result' = Rejected(RateLimitMessage)
            /\ inFlight' = inFlight - 1
            /\ UNCHANGED <<attempt, waits, calls, requested>>
       ELSE IF WaitsBeforeNext(attempt, maxRetries)
       THEN /\ waits' = Append(waits, BackoffDelay(initialDelay, attempt))
            /\ rpc' = "wait"
            /\ inFlight' = inFlight - 1
            /\ UNCHANGED <<attempt, result, calls, requested>>
       ELSE /\ LoopTop(op, attempt + 1, maxRetries, inFlight - 1, lastError')
            /\ UNCHANGED waits
    /\ UNCHANGED <<op, maxRetries, initialDelay>>
    /\ UNCHANGED mainVars
    /\ UNCHANGED aggVars

\* the request fails: fn rejects with the translated error and the catch
\* block runs; without a wait the loop goes straight to its next test
FnReject(http) ==
    /\ rpc = "awaitFn"
    /\ outcomes' = Append(outcomes, Rejected(ApiError(http)))
    /\ lastError' = CaughtError(lastError, ApiError(http))
    /\ IF WaitsBeforeNext(attempt, maxRetries)
       THEN /\ waits' = Append(waits, BackoffDelay(initialDelay, attempt))
            /\ rpc' = "wait"
            /\ inFlight' = inFlight - 1
            /\ UNCHANGED <<attempt, result, calls, requested>>
       ELSE /\ LoopTop(op, attempt + 1, maxRetries, inFlight - 1, lastError')
            /\ UNCHANGED waits
    /\ UNCHANGED <<op, maxRetries, initialDelay>>
    /\ UNCHANGED mainVars
    /\ UNCHANGED aggVars

\* the setTimeout of the catch block fires: attempt++ and the next loop test
TimerFires ==
    /\ rpc = "wait"
    /\ LoopTop(op, attempt + 1, maxRetries, inFlight, lastError)
    /\ UNCHANGED <<op, maxRetries, initialDelay, lastError, waits, outcomes>>
    /\ UNCHANGED mainVars
    /\ UNCHANGED aggVars

----------------------------------------------------------------------------
(* retryWithBackoff called on its own, as the tests call it *)

NoStats == [computed |-> FALSE]

\* the limit argument of computeTopAddresses: given, or left to its default
Limit(n) == [given |-> TRUE, n |-> n]
NoLimit == [given |-> FALSE, n |-> 0]

InitIdle ==
    /\ pc = "idle"
    /\ blocks = <<>>
    /\ idx = 0
    /\ transactions = <<>>
    /\ exitCode = NoExit
    /\ stats = NoStats
    /\ console = <<>>
    /\ fetchLog = <<>>
    /\ op = NoOp
    /\ maxRetries = 0
    /\ initialDelay = 0
    /\ attempt = 0
    /\ lastError = NoError
    /\ rpc = "idle"
    /\ result = Pending
    /\ calls = 0
    /\ waits = <<>>
    /\ outcomes = <<>>
    /\ inFlight = 0
    /\ requested = {}
    /\ aggIn = <<>>
    /\ gasOut = NoStats
    /\ valueOut = NoStats
    /\ blocksIn = <<>>
    /\ limitIn = NoLimit
    /\ volumeOut = NoStats
    /\ activeOut = NoStats
    /\ deployOut = NoStats
    /\ blockTimeOut = NoStats
    /\ topOut = NoStats

RetryInvoke(mr, d) ==
    /\ pc = "idle"
    /\ rpc = "idle"
    /\ retryWithBackoff(BlocksOp, mr, d)
    /\ UNCHANGED mainVars
    /\ UNCHANGED aggVars

NextRetry ==
    \/ \E mr \in -1..MaxAttemptsBound, d \in InitialDelays : RetryInvoke(mr, d)
    \/ \E items \in UpstreamItems(op) : FnResolve(items)
    \/ \E http \in HttpOutcomes \ {"items"} : FnReject(http)
    \/ TimerFires

SpecRetry == InitIdle /\ [][NextRetry]_vars

----------------------------------------------------------------------------
(* main(): one report run *)

Settled(o, r) == [op |-> o, ok |-> r.ok, value |-> r.value]

\* blocks.slice(0, Math.min(20, blocks.length))
TxFetchSlice_All(bs) == bs

TxFetchSlice(bs) == SubSeq(bs, 1, Min(TxFetchBlockCap, Len(bs)))

\* the header is printed and the block list is asked for
MainStart ==
    /\ pc = "idle"
    /\ rpc = "idle"
    /\ console' = Append(console, "header")
    /\ retryWithBackoff(BlocksOp, DefaultMaxRetries, DefaultInitialDelay)
    /\ pc' = "awaitBlocks"
    /\ UNCHANGED <<blocks, idx, transactions, exitCode, stats, fetchLog>>
    /\ UNCHANGED aggVars

\* an empty block list is analysed like any other
MainBlocksFetched_NoExit ==
    /\ pc = "awaitBlocks"
    /\ rpc = "returned"
    /\ blocks' = result.value
    /\ fetchLog' = Append(fetchLog, Settled(op, result))
    /\ console' = Append(console, "fetchedBlocks")
    /\ pc' = "loop"
    /\ idx' = 1
    /\ UNCHANGED <<transactions, stats, exitCode>>
    /\ UNCHANGED retryVars
    /\ UNCHANGED aggVars

\* the block list has arrived; an empty list ends the run with status 0
MainBlocksFetched ==
    /\ pc = "awaitBlocks"
    /\ rpc = "returned"
    /\ blocks' = result.value
    /\ fetchLog' = Append(fetchLog, Settled(op, result))
    /\ IF Len(result.value) = 0
       THEN /\ console' = console \o <<"fetchedBlocks", "noBlocks">>
            /\ pc' = "exited"
            /\ exitCode' = 0
            /\ idx' = idx
       ELSE /\ console' = Append(console, "fetchedBlocks")
            /\ pc' = "loop"
            /\ idx' = 1
            /\ exitCode' = exitCode
    /\ UNCHANGED <<transactions, stats>>
    /\ UNCHANGED retryVars
    /\ UNCHANGED aggVars

\* the failure of the block list is treated like the failure of one block
MainBlocksFailed_Continue ==
    /\ pc = "awaitBlocks"
    /\ rpc = "thrown"
    /\ fetchLog' = Append(fetchLog, Settled(op, result))
    /\ console' = Append(console, "warning")
    /\ pc' = "loop"
    /\ idx' = 1
    /\ UNCHANGED <<blocks, transactions, stats, exitCode>>
    /\ UNCHANGED retryVars
    /\ UNCHANGED aggVars

\* the block list could not be fetched: the error is printed, exit(1)
MainBlocksFailed ==
    /\ pc = "awaitBlocks"
    /\ rpc = "thrown"
    /\ fetchLog' = Append(fetchLog, Settled(op, result))
    /\ console' = Append(console, "errorFetchingData")
    /\ pc' = "exited"
    /\ exitCode' = 1
    /\ UNCHANGED <<blocks, idx, transactions, stats>>
    /\ UNCHANGED retryVars
    /\ UNCHANGED aggVars

\* the promise of retryWithBackoff is not awaited: the loop moves on at once
MainLoop_NoAwait ==
    /\ pc = "loop"
    /\ IF idx <= Len(TxFetchSlice(blocks))
       THEN /\ retryWithBackoff(TxsOp(TxFetchSlice(blocks)[idx].number),
                                DefaultMaxRetries, DefaultInitialDelay)
            /\ pc' = "loop"
            /\ idx' = idx + 1
       ELSE /\ pc' = "stats"
            /\ idx' = idx
            /\ UNCHANGED retryVars
    /\ UNCHANGED <<blocks, transactions, exitCode, stats, console, fetchLog>>
    /\ UNCHANGED aggVars

\* the for..of loop: the transactions of the next block of the slice are
\* asked for, or the loop is over
MainLoop ==
    /\ pc = "loop"
    /\ IF idx <= Len(TxFetchSlice(blocks))
       THEN /\ retryWithBackoff(TxsOp(TxFetchSlice(blocks)[idx].number),
                                DefaultMaxRetries, DefaultInitialDelay)
            /\ pc' = "awaitTxs"
       ELSE /\ pc' = "stats"
            /\ UNCHANGED retryVars
    /\ UNCHANGED <<blocks, idx, transactions, exitCode, stats, console, fetchLog>>
    /\ UNCHANGED aggVars

\* the array is assigned the block's transactions instead of growing by them
MainTxsFetched_Assign ==
    /\ pc = "awaitTxs"
    /\ rpc = "returned"
    /\ transactions' = result.value
    /\ fetchLog' = Append(fetchLog, Settled(op, result))
    /\ idx' = idx + 1
    /\ pc' = "loop"
    /\ UNCHANGED <<blocks, exitCode, stats, console>>
    /\ UNCHANGED retryVars
    /\ UNCHANGED aggVars

\* transactions.push(...blockTxs)
MainTxsFetched ==
    /\ pc = "awaitTxs"
    /\ rpc = "returned"
    /\ transactions' = transactions \o result.value
    /\ fetchLog' = Append(fetchLog, Settled(op, result))
    /\ idx' = idx + 1
    /\ pc' = "loop"
    /\ UNCHANGED <<blocks, exitCode, stats, console>>
    /\ UNCHANGED retryVars
    /\ UNCHANGED aggVars

\* the catch inside the loop: a warning, and on to the next block
MainTxsFailed ==
    /\ pc = "awaitTxs"
    /\ rpc = "thrown"
    /\ console' = Append(console, "warning")
    /\ fetchLog' = Append(fetchLog, Settled(op, result))
    /\ idx' = idx + 1
    /\ pc' = "loop"
    /\ UNCHANGED <<blocks, transactions, exitCode, stats>>
    /\ UNCHANGED retryVars
    /\ UNCHANGED aggVars

\* the sections main prints for the statistics st
Report(txs, st) ==
    <<"blockStatistics">>
      \o (IF Len(txs) > 0
          THEN <<"gasPriceStatistics", "addressStatistics", "contractDeployments",
                 "topAddresses">>
                 \o (IF st.value.totalTransactions > 0
                     THEN <<"transactionValueStatistics">> ELSE <<>>)
          ELSE <<>>)
      \o <<"complete">>

\* the seven compute* calls of main, in order; a call that throws ends them
ComputeStatistics(bs, txs) ==
    IF computeAverageGasPrice(txs).raised THEN Raised
    ELSE [computed |-> TRUE, raised |-> FALSE,
          volume |-> computeTransactionVolume(bs),
          gasPrice |-> computeAverageGasPrice(txs),
          activeAddresses |-> computeActiveAddresses(txs),
          contractDeployments |-> computeContractDeployments(txs),
          blockTime |-> computeBlockTimeStats(bs),
          topAddresses |-> computeTopAddresses(txs, 5),
          value |-> computeTransactionValueStats(txs)]

\* the lines before the statistics
Collected(bs, txs) ==
    (IF Len(txs) = 0 /\ Len(bs) > 0 THEN <<"noTransactions">> ELSE <<>>)
        \o <<"collected">>

\* the statistics are computed and printed; an aggregation function that
\* throws lands in the outer catch: 'Unexpected error', exit(1)
MainStats ==
    /\ pc = "stats"
    /\ \E st \in {ComputeStatistics(blocks, transactions)} :
          IF st.raised
          THEN /\ console' = console \o Collected(blocks, transactions)
                                     \o <<"unexpectedError">>
               /\ stats' = stats
               /\ pc' = "exited"
               /\ exitCode' = 1
          ELSE /\ console' = console \o Collected(blocks, transactions)
                                     \o Report(transactions, st)
               /\ stats' = st
               /\ pc' = "done"
               /\ exitCode' = 0
    /\ UNCHANGED <<blocks, idx, transactions, fetchLog>>
    /\ UNCHANGED retryVars
    /\ UNCHANGED aggVars

Next ==
    \/ MainStart
    \/ MainBlocksFetched
    \/ MainBlocksFailed
    \/ MainLoop
    \/ MainTxsFetched
    \/ MainTxsFailed
    \/ MainStats
    \/ \E items \in UpstreamItems(op) : FnResolve(items)
    \/ \E http \in UpstreamFailures(op) : FnReject(http)
    \/ TimerFires

Spec == InitIdle /\ [][Next]_vars

\* every request is answered, every timer fires and main runs on
FairSpec == Spec /\ WF_vars(Next)

----------------------------------------------------------------------------
(* Properties of retryWithBackoff *)

Failures(n) == {j \in 1..Min(n, Len(outcomes)) : ~outcomes[j].ok}

\* C1: a call of fn that succeeds is the last one: it is call k+1 after k
\* failures with k+1 <= maxRetries, the retry has returned exactly that
\* value, fn has been invoked exactly k+1 times and is not invoked again.
C1_SuccessEndsRetry ==
    /\ \A j \in 1..Len(outcomes) :
          outcomes[j].ok =>
             /\ j = Len(outcomes)
             /\ j <= maxRetries
             /\ calls = j
             /\ rpc = "returned"
             /\ result = Resolved(outcomes[j].value)
             /\ \A i \in 1..(j - 1) : ~outcomes[i].ok
    /\ rpc = "returned" => Len(outcomes) >= 1 /\ outcomes[Len(outcomes)].ok

\* fail, fail, succeed with maxRetries = 3: returned after exactly 3 calls
C1_Witness ==
    /\ rpc = "returned"
    /\ maxRetries = 3
    /\ calls = 3
    /\ Len(outcomes) = 3
    /\ ~outcomes[1].ok /\ ~outcomes[2].ok /\ outcomes[3].ok
    /\ result.value # <<>>

\* C2: with maxRetries >= 1 and fn failing on every call, fn is invoked
\* exactly maxRetries times, then the retry fails, and the error it throws is
\* the error of the last call.
C2_LastFailureSurfaces ==
    /\ (rpc = "thrown" /\ maxRetries >= 1) =>
          /\ calls = maxRetries
          /\ Len(outcomes) = maxRetries
          /\ \A j \in 1..maxRetries : ~outcomes[j].ok
          /\ result = Rejected(outcomes[maxRetries].error)
    /\ (maxRetries >= 1 /\ Cardinality(Failures(maxRetries)) = maxRetries) =>
          rpc = "thrown"

\* three failures of different kinds with maxRetries = 3
C2_Witness ==
    /\ rpc = "thrown"
    /\ maxRetries = 3
    /\ calls = 3
    /\ outcomes[1].error # outcomes[3].error
    /\ outcomes[2].error # outcomes[3].error
    /\ result.error = outcomes[3].error

\* C3: the j-th wait lasts initialDelay * 2^(j-1); there is one wait for each
\* failed call except a failure of call maxRetries, none after a success;
\* call i+1 starts only after the i-th wait has elapsed.
C3_BackoffSchedule ==
    /\ \A j \in 1..Len(waits) : waits[j] = initialDelay * 2 ^ (j - 1)
    /\ Len(waits) = Cardinality(Failures(maxRetries - 1))
    /\ calls <= Len(waits) + 1
    /\ rpc = "wait" => calls = Len(waits)
    /\ rpc \in {"returned", "thrown"} => Len(waits) = Len(outcomes) - 1 \/ outcomes = <<>>

\* four failures with the default delay: waits of 1000, 2000 and 4000
C3_Witness ==
    /\ rpc = "thrown"
    /\ maxRetries = 4
    /\ initialDelay = DefaultInitialDelay
    /\ waits = <<1000, 2000, 4000>>

ErrorMessages ==
    {RateLimitMessage, ApiErrorMessage, NetworkErrorMessage, InvalidFormatMessage}

\* C4: whatever its kind, a failure uses up exactly one attempt: it is
\* followed by the next attempt while attempts remain, the retry never gives
\* up before maxRetries calls and never makes more than maxRetries calls.
C4_ErrorKindIgnored ==
    /\ calls <= maxRetries \/ calls = 0
    /\ Len(outcomes) <= calls
    /\ \A e \in ErrorMessages :
          \A j \in 1..Len(outcomes) :
             (outcomes[j] = Rejected(e) /\ j < maxRetries) =>
                 \/ j < Len(outcomes)
                 \/ rpc \in {"wait", "awaitFn"} /\ lastError = e
    /\ \A j \in 1..Len(outcomes) : ~outcomes[j].ok => outcomes[j].error \in ErrorMessages
    /\ (rpc = "thrown" /\ maxRetries >= 1) => Len(outcomes) = maxRetries

\* a rate-limit failure first, then the three other kinds, all four retried
C4_Witness ==
    /\ rpc = "thrown"
    /\ maxRetries = 4
    /\ outcomes[1].error = RateLimitMessage
    /\ {outcomes[j].error : j \in 1..4} = ErrorMessages

----------------------------------------------------------------------------
(* The aggregation functions called on their own, as the tests call them *)

Tx(f, t, v, g) == [from |-> f, to |-> t, value |-> v, gas_price |-> g]

\* amount strings: decimal integers, padded, signed, empty, hex literals and
\* strings that are no number literal at all
AmountStrings ==
    { <<>>, <<"0">>, <<"5">>, <<"1", "2">>, <<"0", "0", "7">>,
      <<" ", "3", " ">>, <<" ">>, <<"-", "4">>, <<"+", "6">>,
      <<"a">>, <<"1", "a">>, <<"1", ".", "5">>, <<"1", "e", "3">>,
      <<"-">>, <<"-", "-", "1">>,
      <<"0", "x">>, <<"0", "x", "A">>, <<"0", "X", "1", "f">>,
      <<"-", "0", "x", "1">> }

AmountFields == {Str(cs) : cs \in AmountStrings} \cup {Undefined}

\* transactions that vary in one amount field each
TxPool ==
    {Tx(AddrA, AddrB, Str(<<"1">>), g) : g \in AmountFields}
        \cup {Tx(AddrA, AddrB, v, Str(<<"2">>)) : v \in AmountFields}

TxArrays == UNION {[1..n -> TxPool] : n \in 0..MaxTxs}

InitStats ==
    /\ pc = "idle"
    /\ blocks = <<>>
    /\ idx = 0
    /\ transactions = <<>>
    /\ exitCode = NoExit
    /\ stats = NoStats
    /\ console = <<>>
    /\ fetchLog = <<>>
    /\ op = NoOp
    /\ maxRetries = 0
    /\ initialDelay = 0
    /\ attempt = 0
    /\ lastError = NoError
    /\ rpc = "idle"
    /\ result = Pending
    /\ calls = 0
    /\ waits = <<>>
    /\ outcomes = <<>>
    /\ inFlight = 0
    /\ requested = {}
    /\ aggIn \in TxArrays
    /\ gasOut = NoStats
    /\ valueOut = NoStats
    /\ blocksIn = <<>>
    /\ limitIn = NoLimit
    /\ volumeOut = NoStats
    /\ activeOut = NoStats
    /\ deployOut = NoStats
    /\ blockTimeOut = NoStats
    /\ topOut = NoStats

CallAverageGasPrice ==
    /\ ~gasOut.computed
    /\ gasOut' = computeAverageGasPrice(aggIn)
    /\ UNCHANGED <<aggIn, valueOut>>
    /\ UNCHANGED <<limitIn, activeOut, deployOut, topOut>>
    /\ UNCHANGED <<blocksIn, volumeOut, blockTimeOut>>
    /\ UNCHANGED mainVars
    /\ UNCHANGED retryVars

CallTransactionValueStats ==
    /\ ~valueOut.computed
    /\ valueOut' = computeTransactionValueStats(aggIn)
    /\ UNCHANGED <<aggIn, gasOut>>
    /\ UNCHANGED <<limitIn, activeOut, deployOut, topOut>>
    /\ UNCHANGED <<blocksIn, volumeOut, blockTimeOut>>
    /\ UNCHANGED mainVars
    /\ UNCHANGED retryVars

NextStats == CallAverageGasPrice \/ CallTransactionValueStats

SpecStats == InitStats /\ [][NextStats]_vars

\* every variable of the report run and of retryWithBackoff at rest
HarnessIdle ==
    /\ pc = "idle"
    /\ blocks = <<>>
    /\ idx = 0
    /\ transactions = <<>>
    /\ exitCode = NoExit
    /\ stats = NoStats
    /\ console = <<>>
    /\ fetchLog = <<>>
    /\ op = NoOp
    /\ maxRetries = 0
    /\ initialDelay = 0
    /\ attempt = 0
    /\ lastError = NoError
    /\ rpc = "idle"
    /\ result = Pending
    /\ calls = 0
    /\ waits = <<>>
    /\ outcomes = <<>>
    /\ inFlight = 0
    /\ requested = {}

NothingComputed ==
    /\ limitIn = NoLimit
    /\ gasOut = NoStats
    /\ valueOut = NoStats
    /\ volumeOut = NoStats
    /\ activeOut = NoStats
    /\ deployOut = NoStats
    /\ blockTimeOut = NoStats
    /\ topOut = NoStats

\* the address 0x followed by the character c
Addr(c) == Str(<<"0", "x", c>>)

\* a transfer of 1 wei at 2 wei gas price between the given addresses
Transfer(f, t) == Tx(f, t, Str(<<"1">>), Str(<<"2">>))

\* transactions that vary in their addresses: a transfer, one whose from and
\* to differ only in letter case, one sent to its sender, one without sender,
\* a deployment with to null, one with to '', and transfers between further
\* addresses
AddressTxPool ==
    { Transfer(AddrA, AddrB),
      Transfer(Addr("a"), AddrA),
      Transfer(AddrB, AddrB),
      Transfer(Str(<<>>), Addr("c")),
      Transfer(Addr("d"), Undefined),
      Transfer(Addr("e"), Str(<<>>)),
      Transfer(Addr("f"), Addr("1")),
      Transfer(Addr("C"), Addr("d")) }

AddressTxArrays == UNION {[1..n -> AddressTxPool] : n \in 0..MaxAddressTxs}

\* the limits computeTopAddresses is called with, besides its default
Limits == {Limit(n) : n \in {-1, 0, 1, 2, 7}}

InitAddresses ==
    /\ HarnessIdle
    /\ NothingComputed
    /\ aggIn \in AddressTxArrays
    /\ blocksIn = <<>>

CallActiveAddresses ==
    /\ ~activeOut.computed
    /\ activeOut' = computeActiveAddresses(aggIn)
    /\ UNCHANGED <<aggIn, limitIn, deployOut, topOut>>
    /\ UNCHANGED <<gasOut, valueOut>>
    /\ UNCHANGED <<blocksIn, volumeOut, blockTimeOut>>
    /\ UNCHANGED mainVars
    /\ UNCHANGED retryVars

CallContractDeployments ==
    /\ ~deployOut.computed
    /\ deployOut' = computeContractDeployments(aggIn)
    /\ UNCHANGED <<aggIn, limitIn, activeOut, topOut>>
    /\ UNCHANGED <<gasOut, valueOut>>
    /\ UNCHANGED <<blocksIn, volumeOut, blockTimeOut>>
    /\ UNCHANGED mainVars
    /\ UNCHANGED retryVars

\* computeTopAddresses(aggIn, limit), or computeTopAddresses(aggIn) when no
\* limit is given
CallTopAddresses(limit) ==
    /\ ~topOut.computed
    /\ limitIn' = limit
    /\ topOut' = computeTopAddresses(aggIn, IF limit.given THEN limit.n ELSE DefaultLimit)
    /\ UNCHANGED <<aggIn, activeOut, deployOut>>
    /\ UNCHANGED <<gasOut, valueOut>>
    /\ UNCHANGED <<blocksIn, volumeOut, blockTimeOut>>
    /\ UNCHANGED mainVars
    /\ UNCHANGED retryVars

NextAddresses ==
    \/ CallActiveAddresses
    \/ CallContractDeployments
    \/ \E limit \in Limits \cup {NoLimit} : CallTopAddresses(limit)

SpecAddresses == InitAddresses /\ [][NextAddresses]_vars

\* blocks that vary in number and timestamp, and two that hold transactions
BlockPool ==
    {Block(n, Str(ts), 0) :
        n \in 1..3,
        ts \in {<<"1", "0", "0", "0">>, <<"1", "0", "1", "0">>, <<"1", "0", "0", "5">>}}
      \cup {Block(4, Str(<<"1", "0", "2", "0">>), 2),
            Block(1, Str(<<"1", "0", "0", "0">>), 5)}

BlockArrays == UNION {[1..n -> BlockPool] : n \in 0..MaxBlocksIn}

InitBlocks ==
    /\ HarnessIdle
    /\ NothingComputed
    /\ aggIn = <<>>
    /\ blocksIn \in BlockArrays

CallTransactionVolume ==
    /\ ~volumeOut.computed
    /\ volumeOut' = computeTransactionVolume(blocksIn)
    /\ UNCHANGED <<blocksIn, blockTimeOut>>
    /\ UNCHANGED aggIn
    /\ UNCHANGED <<gasOut, valueOut>>
    /\ UNCHANGED <<limitIn, activeOut, deployOut, topOut>>
    /\ UNCHANGED mainVars
    /\ UNCHANGED retryVars

CallBlockTimeStats ==
    /\ ~blockTimeOut.computed
    /\ blockTimeOut' = computeBlockTimeStats(blocksIn)
    /\ UNCHANGED <<blocksIn, volumeOut>>
    /\ UNCHANGED aggIn
    /\ UNCHANGED <<gasOut, valueOut>>
    /\ UNCHANGED <<limitIn, activeOut, deployOut, topOut>>
    /\ UNCHANGED mainVars
    /\ UNCHANGED retryVars

NextBlocks == CallTransactionVolume \/ CallBlockTimeStats

SpecBlocks == InitBlocks /\ [][NextBlocks]_vars

\* all seven functions called on the same input, empty or of one element
InitAggregation ==
    /\ HarnessIdle
    /\ NothingComputed
    /\ aggIn \in {<<>>, <<Transfer(AddrA, AddrB)>>, <<Transfer(Addr("d"), Undefined)>>}
    /\ blocksIn \in {<<>>, <<Block(1, Str(<<"1", "0", "0", "0">>), 5)>>}

NextAggregation ==
    \/ CallTransactionVolume
    \/ CallAverageGasPrice
    \/ CallActiveAddresses
    \/ CallContractDeployments
    \/ CallBlockTimeStats
    \/ \E limit \in Limits \cup {NoLimit} : CallTopAddresses(limit)
    \/ CallTransactionValueStats

SpecAggregation == InitAggregation /\ [][NextAggregation]_vars

----------------------------------------------------------------------------
(* Properties of the report run *)

Terminated == pc \in {"done", "exited"}

\* a retryWithBackoff call for the transactions of a block has thrown
TxFetchFailed == \E k \in 2..Len(fetchLog) : ~fetchLog[k].ok

\* the values of the settled transaction fetches, in order
RECURSIVE CollectedFrom(_)
CollectedFrom(log) ==
    IF Len(log) <= 1 THEN <<>>
    ELSE CollectedFrom(SubSeq(log, 1, Len(log) - 1)) \o log[Len(log)].value

StatisticsTags ==
    {"blockStatistics", "gasPriceStatistics", "addressStatistics",
     "contractDeployments", "topAddresses", "transactionValueStatistics"}

Printed(tags) == \E i \in 1..Len(console) : console[i] \in tags

\* C5: in a run whose block list arrived non-empty, a block whose transaction
\* fetch failed on all attempts does not abort the run: the fetch of every
\* block of the slice is issued, the transactions are those of the fetches
\* that succeeded, the statistics are computed and the exit status is 0.
C5_BlockFailureDoesNotAbort ==
    (Terminated /\ Len(blocks) > 0 /\ TxFetchFailed) =>
        /\ Len(fetchLog) = 1 + Len(TxFetchSlice(blocks))
        /\ transactions = CollectedFrom(fetchLog)
        /\ stats.computed
        /\ exitCode = 0

\* the retryWithBackoff call for the block list has thrown
BlocksFetchFailed == op = BlocksOp /\ rpc = "thrown"

\* C6: when the fetch of the block list has failed on every attempt, the next
\* thing the run does is exit with status 1; no request for transactions is
\* ever sent and no statistic is computed or printed.
C6_BlockListFailureIsFatal ==
    /\ [](BlocksFetchFailed =>
            /\ calls = DefaultMaxRetries
            /\ pc \in {"awaitBlocks", "exited"}
            /\ pc = "exited" => exitCode # 0 /\ exitCode # NoExit
            /\ \A r \in requested : r.path = "/v2/blocks"
            /\ transactions = <<>>
            /\ ~stats.computed
            /\ ~Printed(StatisticsTags))
    /\ [][(BlocksFetchFailed /\ pc = "awaitBlocks") =>
             (pc' = "exited" /\ exitCode' = 1 /\ BlocksFetchFailed')]_vars

C6_Witness ==
    /\ BlocksFetchFailed
    /\ pc = "exited"
    /\ exitCode = 1
    /\ Len(outcomes) = 3
    /\ Printed({"errorFetchingData"})

\* C7: at most one request is in flight; the request for a block's
\* transactions is sent only when the block list and every earlier block's
\* retryWithBackoff call have settled, one call per block in list order, and
\* each call counts its attempts from 0 up to its own budget of 3.
C7_OneFetchAtATime ==
    /\ inFlight \in {0, 1}
    /\ inFlight = 1 <=> rpc = "awaitFn"
    /\ \A k \in 1..Len(fetchLog) :
          fetchLog[k].op = IF k = 1 THEN BlocksOp ELSE TxsOp(blocks[k - 1].number)
    /\ op.kind = "txs" => Len(fetchLog) >= 1 /\ fetchLog[1].ok
    /\ (\E r \in requested : r.path = "/v2/transactions") =>
          Len(fetchLog) >= 1 /\ fetchLog[1].ok
    /\ pc = "awaitBlocks" => fetchLog = <<>> /\ op = BlocksOp
    /\ pc = "awaitTxs" =>
          /\ Len(fetchLog) = idx
          /\ op = TxsOp(blocks[idx].number)
          /\ maxRetries = DefaultMaxRetries
          /\ calls <= DefaultMaxRetries
          /\ Len(outcomes) <= calls
          /\ rpc = "awaitFn" => calls = attempt + 1 /\ Len(outcomes) = attempt

\* the second block gets three attempts of its own after the first block
\* has used up its three
C7_Witness ==
    /\ pc = "awaitTxs"
    /\ idx = 2
    /\ ~fetchLog[2].ok
    /\ rpc = "awaitFn"
    /\ inFlight = 1
    /\ calls = 3

\* C8: no retryWithBackoff call invokes fn more than maxRetries times, and
\* when every request is answered and every timer fires the run terminates,
\* by exit or by completion, whatever the upstream answers.
C8_BoundedRetriesTerminate ==
    /\ [](calls <= maxRetries /\ maxRetries \in {0, DefaultMaxRetries})
    /\ <>Terminated

\* a run that completed although a block's fetch used up all its attempts
C8_Witness ==
    /\ pc = "done"
    /\ TxFetchFailed
    /\ exitCode = 0

----------------------------------------------------------------------------
(* Properties of the amount statistics *)

\* what the specification takes a decimal-integer string to be: decimal
\* digits, optionally signed, optionally padded with white space
IsDecimalInteger(cs) ==
    LET t == Trim(cs) IN
    \/ AllIn(t, DecDigits)
    \/ t # <<>> /\ t[1] \in {"-", "+"} /\ AllIn(Tail(t), DecDigits)

DecimalValue(cs) ==
    LET t == Trim(cs) IN
    IF t[1] = "-" THEN 0 - DigitsValue(Tail(t), 10)
    ELSE IF t[1] = "+" THEN DigitsValue(Tail(t), 10)
    ELSE DigitsValue(t, 10)

\* the amount of a field as the specification decodes it: 0 when the string
\* is absent, empty or no decimal integer
DecodedAmount(x) ==
    IF x.def /\ IsDecimalInteger(x.s) THEN DecimalValue(x.s) ELSE 0

PositiveAmounts(xs) == SelectSeq(xs, IsPositive)

\* C9: computeAverageGasPrice never raises; a gas_price that is empty, absent
\* or no decimal integer counts as 0: it is left out of min, average and max
\* and still counted in totalTransactions.
C9_GasPriceTotalOnMalformed ==
    gasOut.computed =>
       LET amounts == PositiveAmounts([i \in 1..Len(aggIn) |-> DecodedAmount(aggIn[i].gas_price)])
       IN /\ ~gasOut.raised
          /\ gasOut.totalTransactions = Len(aggIn)
          /\ IF amounts = <<>>
             THEN /\ gasOut.minGasPriceGwei.num = 0
                  /\ gasOut.averageGasPriceGwei.num = 0
                  /\ gasOut.maxGasPriceGwei.num = 0
             ELSE /\ gasOut.minGasPriceGwei = weiToGwei(MinSeq(amounts))
                  /\ gasOut.averageGasPriceGwei = weiToGwei(SumSeq(amounts) \div Len(amounts))
                  /\ gasOut.maxGasPriceGwei = weiToGwei(MaxSeq(amounts))

\* C10: computeTransactionValueStats never raises; a value that is empty,
\* absent or no decimal integer counts as 0: it is left out of total, min,
\* average and max and still counted in totalTransactions.
C10_ValueTotalOnMalformed ==
    valueOut.computed =>
       LET amounts == PositiveAmounts([i \in 1..Len(aggIn) |-> DecodedAmount(aggIn[i].value)])
       IN /\ ~valueOut.raised
          /\ valueOut.totalTransactions = Len(aggIn)
          /\ IF amounts = <<>>
             THEN /\ valueOut.totalValueEth.num = 0
                  /\ valueOut.minValueEth.num = 0
                  /\ valueOut.averageValueEth.num = 0
                  /\ valueOut.maxValueEth.num = 0
             ELSE /\ valueOut.totalValueEth = weiToEth(SumSeq(amounts))
                  /\ valueOut.minValueEth = weiToEth(MinSeq(amounts))
                  /\ valueOut.averageValueEth = weiToEth(SumSeq(amounts) \div Len(amounts))
                  /\ valueOut.maxValueEth = weiToEth(MaxSeq(amounts))

\* the strictly positive amounts of a field over the input, as decoded
PositiveGasPrices == PositiveAmounts([i \in 1..Len(aggIn) |-> DecodedAmount(aggIn[i].gas_price)])
PositiveValues == PositiveAmounts([i \in 1..Len(aggIn) |-> DecodedAmount(aggIn[i].value)])

\* C11: both functions return a result whose totalTransactions is the length
\* of the input, 0 for the empty array, whatever the amounts; when the
\* input holds no strictly positive amount, min, average and max (and the
\* total value) are 0.
C11_TotalIsInputLength ==
    /\ gasOut.computed =>
          /\ ~gasOut.raised
          /\ gasOut.totalTransactions = Len(aggIn)
          /\ PositiveGasPrices = <<>> =>
                /\ gasOut.minGasPriceGwei.num = 0
                /\ gasOut.averageGasPriceGwei.num = 0
                /\ gasOut.maxGasPriceGwei.num = 0
    /\ valueOut.computed =>
          /\ ~valueOut.raised
          /\ valueOut.totalTransactions = Len(aggIn)
          /\ PositiveValues = <<>> =>
                /\ valueOut.totalValueEth.num = 0
                /\ valueOut.minValueEth.num = 0
                /\ valueOut.averageValueEth.num = 0
                /\ valueOut.maxValueEth.num = 0

Least(xs) == CHOOSE m \in {xs[i] : i \in 1..Len(xs)} : \A i \in 1..Len(xs) : m <= xs[i]
Greatest(xs) == CHOOSE m \in {xs[i] : i \in 1..Len(xs)} : \A i \in 1..Len(xs) : m >= xs[i]

\* the integer quotient of n >= 0 by d > 0: the q with q * d <= n < (q + 1) * d
TruncatedQuotient(n, d) == CHOOSE q \in 0..n : q * d <= n /\ n < (q + 1) * d

\* C12: when the input holds a strictly positive amount, the average is the
\* truncated quotient of the sum of the strictly positive amounts by their
\* number, min and max are the least and the greatest of them, the total
\* value is their sum, each an integer of base units divided once by 10^9
\* (gas price) or 10^18 (value).
C12_StatsOverPositiveAmounts ==
    /\ (gasOut.computed /\ PositiveGasPrices # <<>>) =>
          /\ ~gasOut.raised
          /\ gasOut.averageGasPriceGwei =
                [num |-> TruncatedQuotient(SumSeq(PositiveGasPrices), Len(PositiveGasPrices)),
                 exp |-> 9]
          /\ gasOut.minGasPriceGwei = [num |-> Least(PositiveGasPrices), exp |-> 9]
          /\ gasOut.maxGasPriceGwei = [num |-> Greatest(PositiveGasPrices), exp |-> 9]
    /\ (valueOut.computed /\ PositiveValues # <<>>) =>
          /\ ~valueOut.raised
          /\ valueOut.totalValueEth = [num |-> SumSeq(PositiveValues), exp |-> 18]
          /\ valueOut.averageValueEth =
                [num |-> TruncatedQuotient(SumSeq(PositiveValues), Len(PositiveValues)),
                 exp |-> 18]
          /\ valueOut.minValueEth = [num |-> Least(PositiveValues), exp |-> 18]
          /\ valueOut.maxValueEth = [num |-> Greatest(PositiveValues), exp |-> 18]

----------------------------------------------------------------------------
(* Properties of the aggregation functions on their own *)

\* the number 0, neither NaN nor an infinity
IsZero(x) == x = [num |-> 0, den |-> 1]

\* C13: each of the seven aggregation functions, called with an empty array,
\* returns without raising: volume {0, 0, 0}; gas price {0, 0, 0,
\* totalTransactions 0}; active addresses {0, 0, 0}; deployments {0, 0%};
\* block time {0, 0, 0, totalBlocks 0}; top addresses the empty list,
\* whatever the limit; value {0, 0, 0, 0, totalTransactions 0}.
C13_EmptyInputDefaults ==
    /\ (blocksIn = <<>> /\ volumeOut.computed) =>
          /\ ~volumeOut.raised
          /\ volumeOut.totalTransactions = 0
          /\ volumeOut.blocksAnalyzed = 0
          /\ IsZero(volumeOut.averageTransactionsPerBlock)
    /\ (aggIn = <<>> /\ gasOut.computed) =>
          /\ ~gasOut.raised
          /\ gasOut.averageGasPriceGwei.num = 0
          /\ gasOut.minGasPriceGwei.num = 0
          /\ gasOut.maxGasPriceGwei.num = 0
          /\ gasOut.totalTransactions = 0
    /\ (aggIn = <<>> /\ activeOut.computed) =>
          /\ ~activeOut.raised
          /\ activeOut.uniqueAddresses = 0
          /\ activeOut.uniqueSenders = 0
          /\ activeOut.uniqueReceivers = 0
    /\ (aggIn = <<>> /\ deployOut.computed) =>
          /\ ~deployOut.raised
          /\ deployOut.totalDeployments = 0
          /\ IsZero(deployOut.deploymentPercentage)
    /\ (blocksIn = <<>> /\ blockTimeOut.computed) =>
          /\ ~blockTimeOut.raised
          /\ IsZero(blockTimeOut.averageBlockTimeSeconds)
          /\ IsZero(blockTimeOut.minBlockTimeSeconds)
          /\ IsZero(blockTimeOut.maxBlockTimeSeconds)
          /\ blockTimeOut.totalBlocks = 0
    /\ (aggIn = <<>> /\ topOut.computed) =>
          /\ ~topOut.raised
          /\ topOut.list = <<>>
    /\ (aggIn = <<>> /\ valueOut.computed) =>
          /\ ~valueOut.raised
          /\ valueOut.totalValueEth.num = 0
          /\ valueOut.averageValueEth.num = 0
          /\ valueOut.minValueEth.num = 0
          /\ valueOut.maxValueEth.num = 0
          /\ valueOut.totalTransactions = 0

\* all seven functions have been called with an empty array
C13_Witness ==
    /\ aggIn = <<>>
    /\ blocksIn = <<>>
    /\ volumeOut.computed
    /\ gasOut.computed
    /\ activeOut.computed
    /\ deployOut.computed
    /\ blockTimeOut.computed
    /\ topOut.computed
    /\ valueOut.computed
    /\ ~limitIn.given

DistinctNumbers(bs) ==
    \A i, j \in 1..Len(bs) : bs[i].number = bs[j].number => i = j

\* the block of bs that has k - 1 blocks of smaller number
BlockOfRank(bs, k) ==
    bs[CHOOSE i \in 1..Len(bs) :
          Cardinality({j \in 1..Len(bs) : bs[j].number < bs[i].number}) = k - 1]

\* the timestamp differences between blocks consecutive in number
Deltas(bs) ==
    [k \in 1..(Len(bs) - 1) |->
        DigitsValue(BlockOfRank(bs, k + 1).timestamp.s, 10)
          - DigitsValue(BlockOfRank(bs, k).timestamp.s, 10)]

\* C14: on at least 2 blocks with distinct numbers, computeBlockTimeStats
\* gives the same result for every permutation of the input; average is the
\* arithmetic mean of the timestamp differences between blocks consecutive
\* in ascending number, min and max their least and greatest, zero and
\* negative differences included as they are; totalBlocks is the input
\* length.
C14_BlockTimeOrderIndependent ==
    (blockTimeOut.computed /\ Len(blocksIn) >= 2 /\ DistinctNumbers(blocksIn)) =>
        /\ \A p \in Permutations(1..Len(blocksIn)) :
              computeBlockTimeStats([i \in 1..Len(blocksIn) |-> blocksIn[p[i]]])
                 = blockTimeOut
        /\ ~blockTimeOut.raised
        /\ blockTimeOut.averageBlockTimeSeconds.den > 0
        /\ blockTimeOut.averageBlockTimeSeconds.num * (Len(blocksIn) - 1)
              = SumSeq(Deltas(blocksIn)) * blockTimeOut.averageBlockTimeSeconds.den
        /\ blockTimeOut.minBlockTimeSeconds = [num |-> Least(Deltas(blocksIn)), den |-> 1]
        /\ blockTimeOut.maxBlockTimeSeconds = [num |-> Greatest(Deltas(blocksIn)), den |-> 1]
        /\ blockTimeOut.totalBlocks = Len(blocksIn)

\* three blocks given out of order whose timestamps fall back once
C14_Witness ==
    /\ blockTimeOut.computed
    /\ Len(blocksIn) = 3
    /\ DistinctNumbers(blocksIn)
    /\ blocksIn[1].number > blocksIn[2].number
    /\ blockTimeOut.minBlockTimeSeconds.num < 0
    /\ blockTimeOut.maxBlockTimeSeconds.num > 0

\* C15: on fewer than 2 blocks computeBlockTimeStats returns average, min
\* and max 0 and totalBlocks equal to the input length, 0 or 1.
C15_FewBlocksGiveZeros ==
    (blockTimeOut.computed /\ Len(blocksIn) < 2) =>
        /\ ~blockTimeOut.raised
        /\ IsZero(blockTimeOut.averageBlockTimeSeconds)
        /\ IsZero(blockTimeOut.minBlockTimeSeconds)
        /\ IsZero(blockTimeOut.maxBlockTimeSeconds)
        /\ blockTimeOut.totalBlocks = Len(blocksIn)
        /\ blockTimeOut.totalBlocks \in {0, 1}

\* a single block
C15_Witness ==
    /\ blockTimeOut.computed
    /\ Len(blocksIn) = 1
    /\ blockTimeOut.totalBlocks = 1

\* two characters that differ at most in letter case
SameChar(c, d) ==
    \/ c = d
    \/ {c, d} \in {{"a", "A"}, {"b", "B"}, {"c", "C"}, {"d", "D"}, {"e", "E"},
                   {"f", "F"}, {"x", "X"}}

\* two addresses that differ at most in letter case
SameAddress(a, b) ==
    /\ Len(a) = Len(b)
    /\ \A i \in 1..Len(a) : SameChar(a[i], b[i])

\* the address fields of the input in traversal order: transactions in array
\* order, within a transaction from before to
AddressFields ==
    [k \in 1..(2 * Len(aggIn)) |->
        IF k % 2 = 1 THEN aggIn[(k + 1) \div 2].from ELSE aggIn[k \div 2].to]

\* the places of the traversal that hold an address
Occurrences == {k \in 1..Len(AddressFields) : AddressFields[k].def /\ AddressFields[k].s # <<>>}

\* the first place of the traversal that holds the address a
FirstSeen(a) ==
    CHOOSE k \in Occurrences :
        /\ SameAddress(AddressFields[k].s, a)
        /\ \A j \in Occurrences : SameAddress(AddressFields[j].s, a) => k <= j

\* C16: the entries computeTopAddresses returns are in descending order of
\* count, and of two entries with equal counts the one whose address occurs
\* first in the traversal comes first, whatever the text of the addresses.
C16_TopAddressesOrder ==
    topOut.computed =>
        \A i, j \in 1..Len(topOut.list) :
            i < j =>
               \/ topOut.list[i].transactionCount > topOut.list[j].transactionCount
               \/ /\ topOut.list[i].transactionCount = topOut.list[j].transactionCount
                  /\ FirstSeen(topOut.list[i].address) < FirstSeen(topOut.list[j].address)

\* 0xa counted three times comes first, then the tied 0xf, 0x1 and 0xb in the
\* order they were met
C16_Witness ==
    /\ topOut.computed
    /\ Len(topOut.list) = 4
    /\ topOut.list[1] = [address |-> <<"0", "x", "a">>, transactionCount |-> 3]
    /\ topOut.list[2] = [address |-> <<"0", "x", "f">>, transactionCount |-> 1]
    /\ topOut.list[3] = [address |-> <<"0", "x", "1">>, transactionCount |-> 1]
    /\ topOut.list[4] = [address |-> <<"0", "x", "b">>, transactionCount |-> 1]

\* the places of the traversal that hold the address a as from, and as to
FromsOf(a) == {k \in Occurrences : k % 2 = 1 /\ SameAddress(AddressFields[k].s, a)}
TosOf(a) == {k \in Occurrences : k % 2 = 0 /\ SameAddress(AddressFields[k].s, a)}

\* every address of the input is in the list computeTopAddresses returned
NothingCut ==
    \A k \in Occurrences :
        \E i \in 1..Len(topOut.list) : SameAddress(topOut.list[i].address, AddressFields[k].s)

RECURSIVE CountsSumUpTo(_, _)
CountsSumUpTo(list, n) ==
    IF n = 0 THEN 0 ELSE CountsSumUpTo(list, n - 1) + list[n].transactionCount

\* C17: the count of an address is the number of transactions whose
\* non-empty from is that address plus the number whose non-empty to is it,
\* letter case set aside; a transaction sent to its own sender adds 2; empty
\* and null fields add nothing, so that the counts of all addresses add up
\* to the number of non-empty from fields plus the number of non-empty to
\* fields.
C17_TopAddressesCounts ==
    topOut.computed =>
        /\ \A i \in 1..Len(topOut.list) :
              /\ topOut.list[i].transactionCount
                    = Cardinality(FromsOf(topOut.list[i].address))
                        + Cardinality(TosOf(topOut.list[i].address))
              /\ \A n \in 1..Len(topOut.list[i].address) :
                    topOut.list[i].address[n] \notin {"A", "B", "C", "D", "E", "F", "X"}
        /\ NothingCut =>
              CountsSumUpTo(topOut.list, Len(topOut.list)) = Cardinality(Occurrences)

\* a transaction from 0xb to 0xb alone: 0xb is counted twice
C17_Witness ==
    /\ topOut.computed
    /\ Len(aggIn) = 1
    /\ aggIn[1].from = aggIn[1].to
    /\ topOut.list = <<[address |-> <<"0", "x", "b">>, transactionCount |-> 2]>>

\* the number of distinct addresses of the input, letter case set aside
DistinctAddresses ==
    Cardinality({{j \in Occurrences : SameAddress(AddressFields[j].s, AddressFields[k].s)} :
                    k \in Occurrences})

\* the limit in force: the one given, or 5
LimitInForce == IF limitIn.given THEN limitIn.n ELSE 5

\* C18: with a limit >= 0, or the default limit 5, computeTopAddresses
\* returns exactly min(limit, number of distinct addresses) entries; no
\* address is returned twice, and when there are no more than limit distinct
\* addresses every one of them is returned.
C18_TopAddressesLimit ==
    (topOut.computed /\ LimitInForce >= 0) =>
        /\ Len(topOut.list) = Min(LimitInForce, DistinctAddresses)
        /\ \A i, j \in 1..Len(topOut.list) :
              SameAddress(topOut.list[i].address, topOut.list[j].address) => i = j
        /\ DistinctAddresses <= LimitInForce => NothingCut

\* six distinct addresses and no limit given: five entries come back
C18_Witness ==
    /\ topOut.computed
    /\ ~limitIn.given
    /\ DistinctAddresses = 6
    /\ Len(topOut.list) = 5

\* the number of distinct addresses, letter case set aside, held at the
\* places K of the traversal
DistinctAt(K) ==
    Cardinality({{j \in K : SameAddress(AddressFields[j].s, AddressFields[k].s)} : k \in K})

\* the places of the traversal that hold a from, and a to
Senders == {k \in Occurrences : k % 2 = 1}
Receivers == {k \in Occurrences : k % 2 = 0}

\* C19: uniqueSenders is the number of distinct non-empty from values,
\* uniqueReceivers the number of distinct non-empty to values and
\* uniqueAddresses the size of the union of the two sets, addresses that
\* differ only in letter case counting once and empty or null fields not
\* at all.
C19_ActiveAddressesCounts ==
    activeOut.computed =>
        /\ ~activeOut.raised
        /\ activeOut.uniqueSenders = DistinctAt(Senders)
        /\ activeOut.uniqueReceivers = DistinctAt(Receivers)
        /\ activeOut.uniqueAddresses = DistinctAt(Senders \cup Receivers)

\* 0xA and 0xa both send, 0xb and 0xA receive: one sender, two receivers,
\* two addresses
C19_Witness ==
    /\ activeOut.computed
    /\ Len(aggIn) = 2
    /\ aggIn[1].from # aggIn[2].from
    /\ SameAddress(aggIn[1].from.s, aggIn[2].from.s)
    /\ activeOut.uniqueSenders = 1
    /\ activeOut.uniqueReceivers = 2
    /\ activeOut.uniqueAddresses = 2

\* the transactions whose to is null or the empty string
DeploymentsIn == {i \in 1..Len(aggIn) : aggIn[i].to \in {Undefined, Str(<<>>)}}

\* C20: totalDeployments is the number of transactions whose to is null or
\* the empty string, a transaction with any other to not being counted;
\* deploymentPercentage is 100 * totalDeployments / input length, and 0 for
\* the empty input.
C20_DeploymentsCount ==
    deployOut.computed =>
        /\ ~deployOut.raised
        /\ deployOut.totalDeployments = Cardinality(DeploymentsIn)
        /\ deployOut.deploymentPercentage.den > 0
        /\ IF Len(aggIn) = 0
           THEN IsZero(deployOut.deploymentPercentage)
           ELSE deployOut.deploymentPercentage.num * Len(aggIn)
                   = 100 * Cardinality(DeploymentsIn) * deployOut.deploymentPercentage.den

\* a transfer, a deployment with to null and one with to '': 2 of 3
C20_Witness ==
    /\ deployOut.computed
    /\ Len(aggIn) = 3
    /\ \E i, j \in 1..3 : ~aggIn[i].to.def /\ aggIn[j].to = Str(<<>>)
    /\ deployOut.totalDeployments = 2
    /\ deployOut.deploymentPercentage = [num |-> 200, den |-> 3]

\* the transaction counts of the blocks added up
RECURSIVE SumOfCounts(_)
SumOfCounts(bs) ==
    IF bs = <<>> THEN 0 ELSE Head(bs).transaction_count + SumOfCounts(Tail(bs))

\* C21: totalTransactions is the sum of the blocks' transaction counts,
\* blocksAnalyzed the number of blocks, and averageTransactionsPerBlock is
\* totalTransactions / blocksAnalyzed when there is a block and 0 otherwise.
C21_VolumeIsSumOverBlocks ==
    volumeOut.computed =>
        /\ ~volumeOut.raised
        /\ volumeOut.totalTransactions = SumOfCounts(blocksIn)
        /\ volumeOut.blocksAnalyzed = Len(blocksIn)
        /\ volumeOut.averageTransactionsPerBlock.den > 0
        /\ IF Len(blocksIn) > 0
           THEN volumeOut.averageTransactionsPerBlock.num * Len(blocksIn)
                   = SumOfCounts(blocksIn) * volumeOut.averageTransactionsPerBlock.den
           ELSE IsZero(volumeOut.averageTransactionsPerBlock)

\* a block of 5 and a block of 2 transactions: 7 in 2 blocks, 3.5 a block
C21_Witness ==
    /\ volumeOut.computed
    /\ Len(blocksIn) = 2
    /\ blocksIn[1].transaction_count = 5
    /\ blocksIn[2].transaction_count = 2
    /\ volumeOut.totalTransactions = 7
    /\ volumeOut.averageTransactionsPerBlock = [num |-> 7, den |-> 2]

----------------------------------------------------------------------------
(* Further properties of retryWithBackoff and of the report run *)

\* C23: retryWithBackoff called with maxRetries <= 0 never invokes fn, waits
\* for nothing and fails with 'Unknown error occurred'; called with
\* maxRetries >= 1 it invokes fn at least once and the error it fails with
\* is never that fallback.
C23_NoAttemptsFallbackError ==
    rpc # "idle" =>
        IF maxRetries <= 0
        THEN /\ calls = 0
             /\ outcomes = <<>>
             /\ waits = <<>>
             /\ inFlight = 0
             /\ rpc = "thrown"
             /\ result = Rejected(UnknownErrorMessage)
        ELSE /\ calls >= 1
             /\ rpc = "thrown" =>
                   /\ result.error # UnknownErrorMessage
                   /\ result.error \in ErrorMessages

\* a call with a negative maxRetries has failed
C23_Witness ==
    /\ maxRetries < 0
    /\ rpc = "thrown"
    /\ calls = 0
    /\ result.error = UnknownErrorMessage

\* the request getTransactions sends for the block b alone
RequestForBlock(b) ==
    [path |-> "/v2/transactions", page |-> 1, offset |-> 100, block_number |-> b.number]

\* C24: every per-block fetch asks for the transactions of its block only:
\* the request sent for a block b, a block numbered 0 included, carries the
\* filter block_number = b.number, and no request for transactions carries
\* anything else.
C24_FetchFiltersByBlock ==
    /\ \A k \in 2..Len(fetchLog) : RequestForBlock(blocks[k - 1]) \in requested
    /\ pc = "awaitTxs" => RequestForBlock(blocks[idx]) \in requested
    /\ \A r \in requested :
          r.path = "/v2/transactions" =>
              \E i \in 1..Len(blocks) : r = RequestForBlock(blocks[i])

\* the fetch of the block list has succeeded with an empty list
BlockListEmpty == op = BlocksOp /\ rpc = "returned" /\ result.value = <<>>

\* C25: when the fetch of the block list succeeds with an empty list, the
\* next thing the run does is exit with status 0; no request for
\* transactions is ever sent, no statistic is computed and no statistic
\* section is printed.
C25_EmptyBlockListExitsZero ==
    /\ [](BlockListEmpty =>
            /\ pc \in {"awaitBlocks", "exited"}
            /\ pc = "exited" => exitCode = 0
            /\ \A r \in requested : r.path = "/v2/blocks"
            /\ transactions = <<>>
            /\ ~stats.computed
            /\ ~Printed(StatisticsTags \cup {"collected", "complete"}))
    /\ [][(BlockListEmpty /\ pc = "awaitBlocks") =>
             (pc' = "exited" /\ exitCode' = 0 /\ BlockListEmpty')]_vars

\* the run has ended on an empty block list that came with the second call
C25_Witness ==
    /\ BlockListEmpty
    /\ pc = "exited"
    /\ exitCode = 0
    /\ calls = 2
    /\ Printed({"noBlocks"})

\* xs is the beginning of ys
IsPrefix(xs, ys) == Len(xs) <= Len(ys) /\ xs = SubSeq(ys, 1, Len(xs))

\* the results of the fetches log[from..Len(log)] that succeeded, one after
\* the other
RECURSIVE Concatenation(_, _)
Concatenation(log, from) ==
    IF from > Len(log) THEN <<>>
    ELSE (IF log[from].ok THEN log[from].value ELSE <<>>) \o Concatenation(log, from + 1)

\* C26: the collected transactions are at every moment, and so when the
\* statistics are computed, the results of the per-block fetches that
\* succeeded, in block-list order, each block's transactions together and in
\* the order returned; a failed fetch adds nothing and leaves what was
\* collected as it was; the array only grows by appending.
C26_TransactionsAreConcatenation ==
    /\ [](/\ transactions = Concatenation(fetchLog, 2)
          /\ \A k \in 2..Len(fetchLog) : fetchLog[k].op = TxsOp(blocks[k - 1].number)
          /\ pc \in {"stats", "done"} => Len(fetchLog) = 1 + Len(TxFetchSlice(blocks)))
    /\ [][/\ IsPrefix(transactions, transactions')
          /\ (pc = "awaitTxs" /\ rpc = "thrown") => transactions' = transactions]_vars

\* the first and the third block gave transactions, the second failed
C26_Witness ==
    /\ pc = "stats"
    /\ Len(fetchLog) = 4
    /\ fetchLog[2].ok /\ ~fetchLog[3].ok /\ fetchLog[4].ok
    /\ Len(fetchLog[2].value) = 1
    /\ Len(fetchLog[4].value) = 2
    /\ transactions = fetchLog[2].value \o fetchLog[4].value

\* The blocks main fetches transactions for: the first min(20, n) of the list.
FirstBlocks == SubSeq(blocks, 1, Min(TxFetchBlockCap, Len(blocks)))

\* The operations of the retry invocations started so far, in order: the
\* settled ones and the one in progress.
OpsStarted ==
    [k \in 1..Len(fetchLog) |-> fetchLog[k].op]
        \o (IF pc \in {"awaitBlocks", "awaitTxs"} THEN <<op>> ELSE <<>>)

\* C22: in a report run with n fetched blocks the retry invocations after the
\* one for the block list are one per block of the first min(20, n) blocks, in
\* list order, and none is for any other block; every transactions request sent
\* is the request of one of these blocks; once the loop is over there has been
\* exactly one invocation for each of them; the computed volume and block-time
\* statistics count all n blocks; and no invocation calls fn more than 3
\* times, so that the at most 1 + min(20, n) invocations of a run make at most
\* 3 + 3 * min(20, n) calls of fn.
C22_FetchesForFirstTwentyBlocks ==
    /\ Len(OpsStarted) <= 1 + Len(FirstBlocks)
    /\ \A k \in 1..Len(OpsStarted) :
          OpsStarted[k] = IF k = 1 THEN BlocksOp ELSE TxsOp(FirstBlocks[k - 1].number)
    /\ \A r \in requested :
          r.path = "/v2/transactions" =>
              \E i \in 1..Len(FirstBlocks) : r = RequestOf(TxsOp(FirstBlocks[i].number))
    /\ pc \in {"stats", "done"} => Len(fetchLog) = 1 + Len(FirstBlocks)
    /\ stats.computed =>
          /\ stats.volume.blocksAnalyzed = Len(blocks)
          /\ stats.blockTime.totalBlocks = Len(blocks)
    /\ calls <= DefaultMaxRetries
    /\ DefaultMaxRetries * Len(OpsStarted)
          <= DefaultMaxRetries + DefaultMaxRetries * Min(TxFetchBlockCap, Len(blocks))

\* C22 witness: a finished run over 22 blocks whose fetch for the 20th block
\* failed: 21 invocations, none for the 21st or 22nd block, 19 transactions
\* collected, and statistics over all 22 blocks.
C22_Witness ==
    /\ pc = "done"
    /\ Len(blocks) = TxFetchBlockCap + 2
    /\ Len(fetchLog) = TxFetchBlockCap + 1
    /\ ~fetchLog[TxFetchBlockCap + 1].ok
    /\ \A k \in 1..Len(fetchLog) :
          fetchLog[k].op \notin {TxsOp(blocks[i].number) :
                                   i \in (TxFetchBlockCap + 1)..Len(blocks)}
    /\ Len(transactions) = TxFetchBlockCap - 1
    /\ stats.computed
    /\ stats.volume.blocksAnalyzed = TxFetchBlockCap + 2
    /\ stats.blockTime.totalBlocks = TxFetchBlockCap + 2
    /\ calls = DefaultMaxRetries

====
